---- MODULE Spec2Model ----
(***************************************************************************)
(* DealShield (src/app.js): the rule-based core of the page -- the field   *)
(* extractors, the signal detectors and the risk aggregator (scoreRisk),   *)
(* the reply composer (buildSafeReply) and the highlighter                  *)
(* (highlightMatches) -- as operators over strings, and a specification    *)
(* that applies them to a bounded set of input texts.                       *)
(*                                                                         *)
(* A JavaScript string is a TLA+ string (a sequence of characters).  The   *)
(* module text is ASCII, so the non-ASCII characters of the texts and      *)
(* patterns of app.js are written with ASCII characters that occur in no   *)
(* text, character class, escape table or pattern of app.js:               *)
(*     U+2019 (right single quote)  is written  ~                          *)
(*     U+2014 (em dash)             is written  =                          *)
(*     U+201C (left double quote)   is written  #                          *)
(*     U+201D (right double quote)  is written  @                          *)
(*     U+20AC (euro sign)           is written  !                          *)
(*     U+00A3 (pound sign)          is written  ;                          *)
(***************************************************************************)
EXTENDS Integers, Sequences, FiniteSets, TLC

VARIABLES text, op, args, ret

\* The page: the text field, the alert box, the two variables of the lazy
\* load of the library, the recognizer and the number of recognizers built so
\* far, the warm-up call, the running calls of analyze, what the page shows
\* and the names of the reports it has downloaded or printed.
VARIABLES input, alert, pipelineFn, pipelineLoadPromise, ner, built, warm, inv,
          shown, files

pageVars ==
  <<input, alert, pipelineFn, pipelineLoadPromise, ner, built, warm, inv, shown, files>>

vars == <<text, op, args, ret, pageVars>>

(***************************************************************************)
(* Characters and strings                                                  *)
(***************************************************************************)

\* The character of s at position i (1-based), "" outside the string.
At(s, i) == IF i >= 1 /\ i <= Len(s) THEN SubSeq(s, i, i) ELSE ""

Digits == {"0", "1", "2", "3", "4", "5", "6", "7", "8", "9"}

LowerLetters ==
  {"a", "b", "c", "d", "e", "f", "g", "h", "i", "j", "k", "l", "m",
   "n", "o", "p", "q", "r", "s", "t", "u", "v", "w", "x", "y", "z"}

UpperLetters ==
  {"A", "B", "C", "D", "E", "F", "G", "H", "I", "J", "K", "L", "M",
   "N", "O", "P", "Q", "R", "S", "T", "U", "V", "W", "X", "Y", "Z"}

\* \w of a regular expression.
WordChars == LowerLetters \cup UpperLetters \cup Digits \cup {"_"}

\* \s of a regular expression (the white space a text of the model can hold).
SpaceChars == {" ", "\n", "\t", "\r", "\f"}

\* String.prototype.toLowerCase on one character.
LowerChar(c) ==
  CASE c = "A" -> "a" [] c = "B" -> "b" [] c = "C" -> "c" [] c = "D" -> "d"
    [] c = "E" -> "e" [] c = "F" -> "f" [] c = "G" -> "g" [] c = "H" -> "h"
    [] c = "I" -> "i" [] c = "J" -> "j" [] c = "K" -> "k" [] c = "L" -> "l"
    [] c = "M" -> "m" [] c = "N" -> "n" [] c = "O" -> "o" [] c = "P" -> "p"
    [] c = "Q" -> "q" [] c = "R" -> "r" [] c = "S" -> "s" [] c = "T" -> "t"
    [] c = "U" -> "u" [] c = "V" -> "v" [] c = "W" -> "w" [] c = "X" -> "x"
    [] c = "Y" -> "y" [] c = "Z" -> "z" [] OTHER -> c

\* The characters i..j of s in lower case (the range is halved, so that the
\* evaluation of a long string does not nest deeply).
RECURSIVE LowerRange(_, _, _)
LowerRange(s, i, j) ==
  IF i > j THEN ""
  ELSE IF i = j THEN LowerChar(SubSeq(s, i, i))
  ELSE LET mid == (i + j) \div 2
       IN LowerRange(s, i, mid) \o LowerRange(s, mid + 1, j)

\* String.prototype.toLowerCase; also how the i flag of a regular expression
\* is modelled: the pattern is written in lower case and matched against the
\* lower-cased subject, and a match is cut out of the subject as it was.
ToLower(s) == LowerRange(s, 1, Len(s))

\* The least number of a non-empty set of numbers.
Least(S) == CHOOSE x \in S : \A y \in S : x <= y

\* The strings i..j of strs with sep between them (the range is halved).
RECURSIVE JoinRange(_, _, _, _)
JoinRange(strs, sep, i, j) ==
  IF i > j THEN ""
  ELSE IF i = j THEN strs[i]
  ELSE LET mid == (i + j) \div 2
       IN JoinRange(strs, sep, i, mid) \o sep \o JoinRange(strs, sep, mid + 1, j)

\* Array.prototype.join.
Join(strs, sep) == JoinRange(strs, sep, 1, Len(strs))

\* The elements of xs at the positions of the set keep, in their order in xs.
Pick(xs, keep) ==
  [n \in 1..Cardinality(keep) |->
     xs[CHOOSE i \in keep : Cardinality({j \in keep : j < i}) = n - 1]]

\* Array.from(new Set(xs)): the elements of xs, each once, in the order of
\* their first occurrence.
Uniq(xs) ==
  Pick(xs, {i \in 1..Len(xs) : \A j \in 1..(i - 1) : xs[j] # xs[i]})

\* Array.prototype.slice(0, n).
Slice0(xs, n) == IF Len(xs) <= n THEN xs ELSE SubSeq(xs, 1, n)

\* null, as returned by extractAmount and extractDeadline; no match of theirs
\* can be this string (an amount starts with a currency sign or a digit, a
\* deadline with "in", "by" or a digit).
null == "null"

(***************************************************************************)
(* Regular expressions: a backtracking matcher that lists, in the          *)
(* engine's order of preference, the positions where a match of r that     *)
(* starts at position i of t can end (a position is the index of the next  *)
(* character to read).  The first of the list is the match the engine      *)
(* reports.                                                                *)
(***************************************************************************)

Lit(s) == [k |-> "lit", s |-> s]
Cls(S) == [k |-> "cls", in |-> S]
NotCls(S) == [k |-> "ncls", out |-> S]
WordB == [k |-> "wb"]
Cat(rs) == [k |-> "cat", rs |-> rs]
Alt(rs) == [k |-> "alt", rs |-> rs]
\* r{lo,hi}, greedy; hi = -1 is no upper limit.
Rep(r, lo, hi) == [k |-> "rep", r |-> r, lo |-> lo, hi |-> hi]
Opt(r) == Rep(r, 0, 1)
Plus(r) == Rep(r, 1, -1)
Star(r) == Rep(r, 0, -1)

IsWordAt(t, i) == At(t, i) \in WordChars

\* A repeated character class c: the run of characters of the class that
\* starts at i is found, and the ends are listed from the longest repetition
\* allowed to the shortest.
ClassRepEnds(c, lo, hi, t, i) ==
  LET In(j) == /\ j <= Len(t)
               /\ IF c.k = "cls" THEN At(t, j) \in c.in ELSE At(t, j) \notin c.out
      stop == CHOOSE j \in i..(Len(t) + 1) : ~In(j) /\ \A n \in i..(j - 1) : In(n)
      run == stop - i
      top == IF hi = -1 \/ run < hi THEN run ELSE hi
  IN IF top < lo THEN <<>> ELSE [n \in 1..(top - lo + 1) |-> i + top - n + 1]

RECURSIVE Ends(_, _, _), EndsAll(_, _, _, _, _), CatEnds(_, _, _, _),
          AltEnds(_, _, _, _), RepEnds(_, _, _, _, _, _), RepAll(_, _, _, _, _, _, _, _)

Ends(r, t, i) ==
  CASE r.k = "lit" ->
         IF i + Len(r.s) - 1 <= Len(t) /\ SubSeq(t, i, i + Len(r.s) - 1) = r.s
         THEN <<i + Len(r.s)>> ELSE <<>>
    [] r.k = "cls" -> IF i <= Len(t) /\ At(t, i) \in r.in THEN <<i + 1>> ELSE <<>>
    [] r.k = "ncls" -> IF i <= Len(t) /\ At(t, i) \notin r.out THEN <<i + 1>> ELSE <<>>
    [] r.k = "wb" -> IF IsWordAt(t, i - 1) # IsWordAt(t, i) THEN <<i>> ELSE <<>>
    [] r.k = "cat" -> CatEnds(r.rs, 1, t, <<i>>)
    [] r.k = "alt" -> AltEnds(r.rs, 1, t, i)
    [] r.k = "rep" ->
         IF r.r.k = "cls" \/ r.r.k = "ncls"
         THEN ClassRepEnds(r.r, r.lo, r.hi, t, i)
         ELSE RepEnds(r.r, r.lo, r.hi, t, i, 0)

\* The ends of r from each of the starts a..b, in the order of the starts
\* (the range is halved).
EndsAll(r, t, starts, a, b) ==
  IF a > b THEN <<>>
  ELSE IF a = b THEN Ends(r, t, starts[a])
  ELSE LET mid == (a + b) \div 2
       IN EndsAll(r, t, starts, a, mid) \o EndsAll(r, t, starts, mid + 1, b)

CatEnds(rs, n, t, starts) ==
  IF n > Len(rs) \/ starts = <<>> THEN starts
  ELSE CatEnds(rs, n + 1, t, EndsAll(rs[n], t, starts, 1, Len(starts)))

AltEnds(rs, n, t, i) ==
  IF n > Len(rs) THEN <<>> ELSE Ends(rs[n], t, i) \o AltEnds(rs, n + 1, t, i)

\* Greedy repetition: one more r first (an r that reads nothing is not
\* repeated), then stopping here if lo repetitions are done.
RepEnds(r, lo, hi, t, i, done) ==
  (IF hi = -1 \/ done < hi
   THEN LET starts == SelectSeq(Ends(r, t, i), LAMBDA j : j > i)
        IN RepAll(r, lo, hi, t, starts, 1, Len(starts), done + 1)
   ELSE <<>>)
  \o (IF done >= lo THEN <<i>> ELSE <<>>)

RepAll(r, lo, hi, t, starts, a, b, done) ==
  IF a > b THEN <<>>
  ELSE IF a = b THEN RepEnds(r, lo, hi, t, starts[a], done)
  ELSE LET mid == (a + b) \div 2
       IN RepAll(r, lo, hi, t, starts, a, mid, done)
          \o RepAll(r, lo, hi, t, starts, mid + 1, b, done)

\* RegExp.prototype.test of a regular expression without the g flag: is
\* there a match anywhere in s.
Test(re, s) ==
  LET t == ToLower(s) IN \E i \in 1..(Len(t) + 1) : Ends(re, t, i) # <<>>

\* String.prototype.match with the g flag: the matched substrings, leftmost
\* first, none overlapping (<<>> where match returns null).  starts is the set
\* of the positions of t where some match starts; the search resumes where the
\* last match ended (one further on after an empty match).
RECURSIVE MatchFrom(_, _, _, _, _)
MatchFrom(re, s, t, starts, i) ==
  LET later == {j \in starts : j >= i} IN
  IF later = {} THEN <<>>
  ELSE LET b == Least(later)
           e == Ends(re, t, b)[1]
       IN <<SubSeq(s, b, e - 1)>>
          \o MatchFrom(re, s, t, starts, IF e = b THEN b + 1 ELSE e)

MatchAll(re, s) ==
  LET t == ToLower(s)
      starts == {i \in 1..(Len(t) + 1) : Ends(re, t, i) # <<>>}
  IN MatchFrom(re, s, t, starts, 1)

(***************************************************************************)
(* Field extractors                                                        *)
(***************************************************************************)

Digit == Cls(Digits)
Space == Cls(SpaceChars)
\* [^\s)]
NotSpaceParen == NotCls(SpaceChars \cup {")"})

\* /\bhttps?:\/\/[^\s)]+|\b(?:bit\.ly|t\.co|tinyurl\.com|goo\.gl)\/[^\s)]+
\*  |\b[a-z0-9.-]+\.[a-z]{2,}(?:\/[^\s)]*)?/ig
urlRe ==
  Alt(<<Cat(<<WordB, Lit("http"), Opt(Lit("s")), Lit("://"), Plus(NotSpaceParen)>>),
        Cat(<<WordB,
              Alt(<<Lit("bit.ly"), Lit("t.co"), Lit("tinyurl.com"), Lit("goo.gl")>>),
              Lit("/"), Plus(NotSpaceParen)>>),
        Cat(<<WordB, Plus(Cls(LowerLetters \cup Digits \cup {".", "-"})),
              Lit("."), Rep(Cls(LowerLetters), 2, -1),
              Opt(Cat(<<Lit("/"), Star(NotSpaceParen)>>))>>)>>)

\* A variant of extractLinks that removes the duplicates before it cuts.
ExtractLinksUniqFirst(s) == Slice0(Uniq(MatchAll(urlRe, s)), 8)

extractLinks(s) == Uniq(Slice0(MatchAll(urlRe, s), 8))

\* \d{1,3}(?:[,\s]\d{3})*(?:\.\d{2})?, which amountRe holds twice.
NumberRe ==
  Cat(<<Rep(Digit, 1, 3),
        Star(Cat(<<Cls({","} \cup SpaceChars), Rep(Digit, 3, 3)>>)),
        Opt(Cat(<<Lit("."), Rep(Digit, 2, 2)>>))>>)

\* /(\$|€|£)\s?\d{1,3}(?:[,\s]\d{3})*(?:\.\d{2})?
\*  |\b\d{1,3}(?:[,\s]\d{3})*(?:\.\d{2})?\s?(USD|EUR|GBP)\b/ig
amountRe ==
  Alt(<<Cat(<<Alt(<<Lit("$"), Lit("!"), Lit(";")>>), Opt(Space), NumberRe>>),
        Cat(<<WordB, NumberRe, Opt(Space),
              Alt(<<Lit("usd"), Lit("eur"), Lit("gbp")>>), WordB>>)>>)

extractAmount(s) ==
  LET m == MatchAll(amountRe, s) IN IF m # <<>> THEN m[1] ELSE null

\* /\b(in\s+\d{1,3}\s+(days?|weeks?)|by\s+\w+\s+\d{1,2}
\*  |\b\d{1,2}\/\d{1,2}\/\d{2,4}\b|\b\d{4}-\d{2}-\d{2}\b)\b/ig
deadlineRe ==
  Cat(<<WordB,
        Alt(<<Cat(<<Lit("in"), Plus(Space), Rep(Digit, 1, 3), Plus(Space),
                    Alt(<<Cat(<<Lit("day"), Opt(Lit("s"))>>),
                          Cat(<<Lit("week"), Opt(Lit("s"))>>)>>)>>),
              Cat(<<Lit("by"), Plus(Space), Plus(Cls(WordChars)), Plus(Space),
                    Rep(Digit, 1, 2)>>),
              Cat(<<WordB, Rep(Digit, 1, 2), Lit("/"), Rep(Digit, 1, 2), Lit("/"),
                    Rep(Digit, 2, 4), WordB>>),
              Cat(<<WordB, Rep(Digit, 4, 4), Lit("-"), Rep(Digit, 2, 2), Lit("-"),
                    Rep(Digit, 2, 2), WordB>>)>>),
        WordB>>)

extractDeadline(s) ==
  LET m == MatchAll(deadlineRe, s) IN IF m # <<>> THEN m[1] ELSE null

\* The four category tests of detectPayment, in the order of the code:
\* /(iban|swift|bank transfer|wire)/i, /(paypal)/i,
\* /(crypto|usdt|btc|eth|wallet)/i, /(gift card|voucher)/i.
bankRe == Alt(<<Lit("iban"), Lit("swift"), Lit("bank transfer"), Lit("wire")>>)
paypalRe == Alt(<<Lit("paypal")>>)
cryptoRe == Alt(<<Lit("crypto"), Lit("usdt"), Lit("btc"), Lit("eth"), Lit("wallet")>>)
giftRe == Alt(<<Lit("gift card"), Lit("voucher")>>)

\* A variant of detectPayment without the return of "Unspecified".
DetectPaymentJoinOnly(s) ==
  LET hits == (IF Test(bankRe, s) THEN <<"Bank transfer">> ELSE <<>>)
              \o (IF Test(paypalRe, s) THEN <<"PayPal">> ELSE <<>>)
              \o (IF Test(cryptoRe, s) THEN <<"Crypto">> ELSE <<>>)
              \o (IF Test(giftRe, s) THEN <<"Gift cards">> ELSE <<>>)
  IN Join(Uniq(hits), ", ")

detectPayment(s) ==
  LET hits == (IF Test(bankRe, s) THEN <<"Bank transfer">> ELSE <<>>)
              \o (IF Test(paypalRe, s) THEN <<"PayPal">> ELSE <<>>)
              \o (IF Test(cryptoRe, s) THEN <<"Crypto">> ELSE <<>>)
              \o (IF Test(giftRe, s) THEN <<"Gift cards">> ELSE <<>>)
  IN IF Len(hits) = 0 THEN "Unspecified" ELSE Join(Uniq(hits), ", ")

(***************************************************************************)
(* Signal detectors and the risk aggregator                                *)
(***************************************************************************)

\* A variant of add that puts the actions in front of the plan.
AddInFront(st, pts, label, triggerPhrases, actions) ==
  [score |-> st.score + pts,
   reasons |-> Append(st.reasons,
                      [label |-> label, pts |-> pts, triggerPhrases |-> triggerPhrases]),
   plan |-> actions \o st.plan]

\* The closure add of scoreRisk, on the running state st = [score, reasons,
\* plan]: the points are added, one reason is pushed, the actions are pushed.
add(st, pts, label, triggerPhrases, actions) ==
  [score |-> st.score + pts,
   reasons |-> Append(st.reasons,
                      [label |-> label, pts |-> pts, triggerPhrases |-> triggerPhrases]),
   plan |-> st.plan \o actions]

urgencyRe ==
  Alt(<<Lit("urgent"), Lit("asap"), Lit("today"), Lit("immediately"),
        Lit("right now"), Lit("rush")>>)

urgencySignal(st, s) ==
  IF Test(urgencyRe, s)
  THEN add(st, 12, "Urgency pressure",
           <<"urgent", "asap", "today", "immediately", "right now", "rush">>,
           <<"Slow down: verify key terms before sending money.">>)
  ELSE st

secrecyRe == Alt(<<Lit("confidential"), Lit("don~t tell"), Lit("keep this secret")>>)

\* A variant of secrecySignal that is skipped once an earlier detector fired
\* (an else-if chain).
SecrecyElseIf(st, s) ==
  IF st.reasons = <<>> /\ Test(secrecyRe, s)
  THEN add(st, 18, "Secrecy request",
           <<"confidential", "don~t tell", "keep this secret">>,
           <<"Treat secrecy requests as a red flag. Confirm identity via a second channel.">>)
  ELSE st

secrecySignal(st, s) ==
  IF Test(secrecyRe, s)
  THEN add(st, 18, "Secrecy request",
           <<"confidential", "don~t tell", "keep this secret">>,
           <<"Treat secrecy requests as a red flag. Confirm identity via a second channel.">>)
  ELSE st

advanceFeeRe ==
  Alt(<<Lit("activation fee"), Lit("processing fee"), Lit("release the funds"),
        Lit("advance fee"), Lit("to start, pay")>>)

advanceFeeSignal(st, s) ==
  IF Test(advanceFeeRe, s)
  THEN add(st, 28, "Advance-fee / pay-first pattern",
           <<"activation fee", "processing fee", "advance fee", "to start, pay">>,
           <<"Do not pay fees upfront. Require clear contract + verifiable business identity.",
             "Ask for a standard invoice and verifiable company details.">>)
  ELSE st

paymentChangeRe ==
  Alt(<<Lit("bank details have changed"), Lit("new account"), Lit("pay to the new"),
        Lit("updated payment details")>>)

\* A variant of paymentChangeSignal that adds 20 points and recommends the
\* comparison only.
PaymentChangeWeak(st, s) ==
  IF Test(paymentChangeRe, s)
  THEN add(st, 20, "Payment details change request",
           <<"bank details have changed", "new account", "updated payment details">>,
           <<"Compare the new details against previous invoices / contracts.">>)
  ELSE st

paymentChangeSignal(st, s) ==
  IF Test(paymentChangeRe, s)
  THEN add(st, 30, "Payment details change request",
           <<"bank details have changed", "new account", "updated payment details">>,
           <<"Freeze payments: confirm new payment details via a verified second channel (call / known contact).",
             "Compare the new details against previous invoices / contracts.">>)
  ELSE st

shortenerRe == Alt(<<Lit("bit.ly"), Lit("t.co"), Lit("tinyurl.com"), Lit("goo.gl")>>)

\* links.some(l => /(bit\.ly|t\.co|tinyurl\.com|goo\.gl)/i.test(l))
shortLinkSignal(st, links) ==
  IF \E n \in 1..Len(links) : Test(shortenerRe, links[n])
  THEN add(st, 20, "Shortened link",
           <<"bit.ly", "t.co", "tinyurl.com", "goo.gl">>,
           <<"Avoid shortened links for payments. Request the full official domain.">>)
  ELSE st

cryptoOnlyRe == Alt(<<Lit("only accept crypto"), Lit("crypto only"), Lit("usdt only")>>)

cryptoOnlySignal(st, s) ==
  IF Test(cryptoOnlyRe, s)
  THEN add(st, 16, "Payment rail restriction (crypto-only)",
           <<"only accept crypto", "crypto only", "usdt only">>,
           <<"Prefer standard invoicing and traceable business payment rails for first-time counterparties.">>)
  ELSE st

missingAmountSignal(st, s) ==
  IF extractAmount(s) = null
  THEN add(st, 10, "Missing or unclear amount", <<>>,
           <<"Clarify the exact amount, currency, and milestone schedule in writing.">>)
  ELSE st

missingDeadlineSignal(st, s) ==
  IF extractDeadline(s) = null
  THEN add(st, 6, "Missing deadline / deliverables clarity", <<>>,
           <<"Confirm deliverables, acceptance criteria, and deadline.">>)
  ELSE st

\* A variant of Clamp that bounds the score from below only.
ClampBelowOnly(score) == IF score > 0 THEN score ELSE 0

\* A variant of Level whose thresholds are strict.
LevelStrict(score) ==
  IF score > 70 THEN "HIGH" ELSE IF score > 40 THEN "MEDIUM" ELSE "LOW"

\* score = Math.max(0, Math.min(100, score))
Clamp(score) ==
  LET m == IF score < 100 THEN score ELSE 100 IN IF m > 0 THEN m ELSE 0

\* let level = "LOW"; if (score >= 70) level = "HIGH";
\* else if (score >= 40) level = "MEDIUM";
Level(score) ==
  IF score >= 70 THEN "HIGH" ELSE IF score >= 40 THEN "MEDIUM" ELSE "LOW"

scoreRisk(s) ==
  LET s0 == [score |-> 10, reasons |-> <<>>, plan |-> <<>>]
      s1 == urgencySignal(s0, s)
      s2 == secrecySignal(s1, s)
      s3 == advanceFeeSignal(s2, s)
      s4 == paymentChangeSignal(s3, s)
      links == extractLinks(s)
      s5 == shortLinkSignal(s4, links)
      s6 == cryptoOnlySignal(s5, s)
      s7 == missingAmountSignal(s6, s)
      s8 == missingDeadlineSignal(s7, s)
      uniqPlan == Uniq(s8.plan)
      score == Clamp(s8.score)
  IN [score |-> score, level |-> Level(score), reasons |-> s8.reasons,
      plan |-> uniqPlan, links |-> links]

(***************************************************************************)
(* Reply composer                                                          *)
(***************************************************************************)

\* String.prototype.includes.
Includes(s, sub) ==
  \E i \in 1..(Len(s) - Len(sub) + 1) : SubSeq(s, i, i + Len(sub) - 1) = sub

\* A variant of buildSafeReply that decides the 5th item only when it has
\* pushed the 4th.
BuildSafeReplyNested(level, snapshot) ==
  LET tone == IF level = "HIGH"
              THEN "Before proceeding, I need to verify a few details for safety."
              ELSE IF level = "MEDIUM"
              THEN "Quick verification before we proceed:"
              ELSE "Just confirming a couple of details to avoid misunderstandings:"
      lines0 ==
        <<"Hi = thanks for the update.",
          tone,
          "",
          "1) Please confirm the exact amount + currency and the payment method.",
          "2) Please confirm the payment details via a second channel (call / known contact).",
          "3) Please share a standard invoice and your company details (legal name, website, address).">>
      lines1 == IF Len(snapshot.links) # 0
                THEN Append(lines0, "4) Please share the full official domain (no shortened links).")
                ELSE lines0
      lines2 == IF Len(snapshot.links) # 0 /\ Includes(snapshot.payment, "Crypto")
                THEN Append(lines1, "5) For first-time engagements, I prefer standard invoicing and traceable business payment rails.")
                ELSE lines1
  IN Join(lines2 \o <<"", "Once confirmed, I~m happy to proceed immediately.">>, "\n")

buildSafeReply(level, snapshot) ==
  LET tone == IF level = "HIGH"
              THEN "Before proceeding, I need to verify a few details for safety."
              ELSE IF level = "MEDIUM"
              THEN "Quick verification before we proceed:"
              ELSE "Just confirming a couple of details to avoid misunderstandings:"
      lines0 ==
        <<"Hi = thanks for the update.",
          tone,
          "",
          "1) Please confirm the exact amount + currency and the payment method.",
          "2) Please confirm the payment details via a second channel (call / known contact).",
          "3) Please share a standard invoice and your company details (legal name, website, address).">>
      lines1 == IF Len(snapshot.links) # 0
                THEN Append(lines0, "4) Please share the full official domain (no shortened links).")
                ELSE lines0
      lines2 == IF Includes(snapshot.payment, "Crypto")
                THEN Append(lines1, "5) For first-time engagements, I prefer standard invoicing and traceable business payment rails.")
                ELSE lines1
  IN Join(lines2 \o <<"", "Once confirmed, I~m happy to proceed immediately.">>, "\n")

(***************************************************************************)
(* Highlighter                                                             *)
(***************************************************************************)

\* The replacement of one character by escapeHtml.
EscapeChar(c) ==
  CASE c = "&" -> "&amp;"
    [] c = "<" -> "&lt;"
    [] c = ">" -> "&gt;"
    [] c = "\"" -> "&quot;"
    [] c = "'" -> "&#039;"
    [] OTHER -> c

\* The characters i..j of str, escaped (the range is halved, as in LowerRange).
RECURSIVE EscapeRange(_, _, _)
EscapeRange(str, i, j) ==
  IF i > j THEN ""
  ELSE IF i = j THEN EscapeChar(SubSeq(str, i, i))
  ELSE LET mid == (i + j) \div 2
       IN EscapeRange(str, i, mid) \o EscapeRange(str, mid + 1, j)

\* str.replace(/[&<>"']/g, (m) => ({...}[m]))
escapeHtml(str) == EscapeRange(str, 1, Len(str))

\* xs.sort((a,b) => b.length - a.length): longest first, and (the sort is
\* stable) strings of one length in the order they had.
SortByLengthDesc(xs) ==
  LET Before(i) == {j \in 1..Len(xs) :
                      \/ Len(xs[j]) > Len(xs[i])
                      \/ Len(xs[j]) = Len(xs[i]) /\ j < i}
  IN [n \in 1..Len(xs) |->
        xs[CHOOSE i \in 1..Len(xs) : Cardinality(Before(i)) = n - 1]]

\* safe.replace(re, (m) => `<mark>${m}</mark>`) where re is the phrase with its
\* regular-expression characters escaped, compiled with the flags i and g: every
\* occurrence of the phrase in safe, whatever its case, scanning left to right
\* and resuming after each occurrence, is wrapped in <mark> and </mark>.
\* occ is the set of the positions of safe where the phrase, of length n,
\* occurs; what precedes position i is done.
RECURSIVE MarkFrom(_, _, _, _)
MarkFrom(safe, occ, n, i) ==
  LET later == {j \in occ : j >= i} IN
  IF later = {} THEN SubSeq(safe, i, Len(safe))
  ELSE LET b == Least(later)
       IN SubSeq(safe, i, b - 1)
          \o "<mark>" \o SubSeq(safe, b, b + n - 1) \o "</mark>"
          \o MarkFrom(safe, occ, n, b + n)

markPhrase(safe, phrase) ==
  LET t == ToLower(safe)
      p == ToLower(phrase)
      n == Len(p)
      occ == {j \in 1..(Len(t) - n + 1) : SubSeq(t, j, j + n - 1) = p}
  IN MarkFrom(safe, occ, n, 1)

\* The loop over the phrases n.. of uniq, each replacement made in the
\* running string safe (in an empty string there is nothing to replace).
RECURSIVE MarkEach(_, _, _)
MarkEach(safe, uniq, n) ==
  IF safe = "" \/ n > Len(uniq) THEN safe
  ELSE MarkEach(markPhrase(safe, uniq[n]), uniq, n + 1)

highlightMatches(s, matches) ==
  LET uniq == SortByLengthDesc(SelectSeq(Uniq(matches), LAMBDA m : m # ""))
  IN MarkEach(escapeHtml(s), uniq, 1)

(***************************************************************************)
(* What analyze builds between the calls of the core                       *)
(***************************************************************************)

\* The trigger phrases of the first n reasons.
RECURSIVE PhrasesUpTo(_, _)
PhrasesUpTo(reasons, n) ==
  IF n = 0 THEN <<>>
  ELSE PhrasesUpTo(reasons, n - 1) \o reasons[n].triggerPhrases

\* reasons.sort((a,b)=>b.pts-a.pts): most points first, and (the sort is
\* stable) reasons of the same points in the order they had.
SortByPtsDesc(reasons) ==
  LET Before(i) == {j \in 1..Len(reasons) :
                      \/ reasons[j].pts > reasons[i].pts
                      \/ reasons[j].pts = reasons[i].pts /\ j < i}
  IN [n \in 1..Len(reasons) |->
        reasons[CHOOSE i \in 1..Len(reasons) : Cardinality(Before(i)) = n - 1]]

\* The result once renderReasons(result.reasons) has run: renderReasons sorts
\* the array it is given, which is the array of the result, in place.
AfterRenderReasons(result) ==
  [result EXCEPT !.reasons = SortByPtsDesc(@)]

\* let triggers = []; for (const r of result.reasons) triggers =
\* triggers.concat(r.triggerPhrases || []);
\* triggers = triggers.concat(result.links.filter(Boolean));
Triggers(result) ==
  PhrasesUpTo(result.reasons, Len(result.reasons)) \o SelectSeq(result.links, LAMBDA l : l # "")

\* const snapshot = { amount, deadline, payment, links: result.links, parties: null }
Snapshot(s, result) ==
  [amount |-> extractAmount(s), deadline |-> extractDeadline(s),
   payment |-> detectPayment(s), links |-> result.links, parties |-> null]

(***************************************************************************)
(* The input texts                                                         *)
(***************************************************************************)

\* The three demo texts of the page.
DEMOS ==
  [clean |->
     "Hi Omar,\nWe~d like to hire you for a landing page redesign. Budget is $1,200, delivery in 10 days.\nPayment: 50% upfront via bank transfer, 50% after delivery.\nPlease confirm the milestone breakdown and send an invoice.\n= Sarah, Northwind Studio",
   bank_change |->
     "Hello,\nQuick update: our bank details have changed. Please pay the invoice to the NEW account below today.\nAccount name: NW Trading Ltd\nIBAN: XX00 0000 0000 0000\nAlso, keep this confidential and do not contact anyone else = we~re in a rush.\nThanks.",
   advance_fee |->
     "URGENT: We need to secure your service now.\nTo start, please pay the #activation fee@ of $150 today. After that, we will release the full $3,000.\nUse this link to confirm: bit.ly/pay-confirm\nWe only accept crypto. Don~t tell anyone about this deal."]

\* The longest run of links a typed text holds.
MaxLinks == 9

\* The words of strs that are not empty, separated by one space.
Words(strs) == Join(SelectSeq(strs, LAMBDA w : w # ""), " ")

\* n times the word w.
Run(w, n) == [i \in 1..n |-> w]

\* Typed texts that hold, or not, a phrase for each of the eight detectors.
DetectorTexts ==
  {Words(<<u, s, a, p, l, c, m, d>>) :
     u \in {"", "rush"},
     s \in {"", "don~t tell"},
     a \in {"", "activation fee"},
     p \in {"", "NEW account"},
     l \in {"", "bit.ly/pay-confirm", "example.com/pay"},
     c \in {"", "we only accept crypto"},
     m \in {"", "$150"},
     d \in {"", "in 10 days"}}

\* Typed texts with the other wordings of an advance fee and of a change of
\* the payment details.
WordingTexts ==
  {Words(<<a, p>>) :
     a \in {"", "processing fee", "release the funds"},
     p \in {"", "updated payment details", "pay to the new"}}

\* Typed texts that name, or not, each payment method.
PaymentTexts ==
  {Words(<<b, p, c, g>>) :
     b \in {"", "wire"},
     p \in {"", "PayPal"},
     c \in {"", "btc wallet", "method"},
     g \in {"", "voucher"}}

\* Typed texts that are a run of at most MaxLinks links: a domain, then a
\* shortened link, then another domain, each any number of times.
LinkTexts ==
  {Join(Run("a.io", n[1]) \o Run("bit.ly/x", n[2]) \o Run("b.io/pay", n[3]), " ") :
     n \in {m \in (0..MaxLinks) \X (0..MaxLinks) \X (0..MaxLinks) :
              m[1] + m[2] + m[3] <= MaxLinks}}

\* const text = input.value.trim(); if (!text) return: the texts the core is
\* called on are trimmed and not empty.
Texts ==
  ({DEMOS.clean, DEMOS.bank_change, DEMOS.advance_fee}
     \cup DetectorTexts \cup WordingTexts \cup PaymentTexts \cup LinkTexts) \ {""}

Levels == {"HIGH", "MEDIUM", "LOW"}

(***************************************************************************)
(* The page when its script has run: the text field holds the first demo   *)
(* text, nothing is loaded, the warm-up timer is set, no call of analyze   *)
(* runs and nothing is analyzed yet.                                       *)
(***************************************************************************)

\* The dash that the page shows for a field without a value (U+2014).
dash == "="

PageInit ==
  /\ input = DEMOS.clean
  /\ alert = FALSE
  /\ pipelineFn = null
  /\ pipelineLoadPromise = null
  /\ ner = null
  /\ built = 0
  /\ warm = "timer"
  /\ inv = <<>>
  /\ shown = [score |-> dash, level |-> dash, reasons |-> <<>>, plan |-> <<>>,
              parties |-> dash, amount |-> dash, deadline |-> dash,
              payment |-> dash, links |-> dash, reply |-> dash,
              highlighted |-> "Run analysis to see highlighted signals.",
              aiStatus |-> dash]
  /\ files = <<>>

(***************************************************************************)
(* The core applied to one text: text is the text, op the function that    *)
(* was called ("none" before the call), args the arguments of the call and *)
(* ret what the call returned.                                             *)
(***************************************************************************)

Init ==
  /\ text \in Texts
  /\ op = "none"
  /\ args = <<>>
  /\ ret = "none"
  /\ PageInit

CallScoreRisk ==
  /\ op = "none"
  /\ op' = "scoreRisk"
  /\ args' = <<text>>
  /\ ret' = scoreRisk(text)
  /\ UNCHANGED <<text, pageVars>>

CallExtractLinks ==
  /\ op = "none"
  /\ op' = "extractLinks"
  /\ args' = <<text>>
  /\ ret' = extractLinks(text)
  /\ UNCHANGED <<text, pageVars>>

CallDetectPayment ==
  /\ op = "none"
  /\ op' = "detectPayment"
  /\ args' = <<text>>
  /\ ret' = detectPayment(text)
  /\ UNCHANGED <<text, pageVars>>

\* buildSafeReply(result.level, snapshot), on the result and the snapshot
\* that analyze builds from the text.
CallBuildSafeReply ==
  /\ op = "none"
  /\ \E result \in {scoreRisk(text)} :
       \E snapshot \in {Snapshot(text, result)} :
         /\ args' = <<result.level, snapshot>>
         /\ ret' = buildSafeReply(result.level, snapshot)
  /\ op' = "buildSafeReply"
  /\ UNCHANGED <<text, pageVars>>

\* highlightMatches(text, triggers), on the triggers that analyze collects
\* from the result.
CallHighlightMatches ==
  /\ op = "none"
  /\ \E triggers \in {Triggers(AfterRenderReasons(scoreRisk(text)))} :
       /\ args' = <<text, triggers>>
       /\ ret' = highlightMatches(text, triggers)
  /\ op' = "highlightMatches"
  /\ UNCHANGED <<text, pageVars>>

Next ==
  \/ CallScoreRisk
  \/ CallExtractLinks
  \/ CallDetectPayment
  \/ CallBuildSafeReply
  \/ CallHighlightMatches

Spec == Init /\ [][Next]_vars

(***************************************************************************)
(* Properties of scoreRisk                                                 *)
(***************************************************************************)

\* C1: the score that scoreRisk returns is an integer from 0 to 100, and it
\* is 100 when all eight detectors fire (the sum, 150, is cut down to 100).
C1_ScoreInRange ==
  op = "scoreRisk" =>
    /\ ret.score \in 0..100
    /\ Len(ret.reasons) = 8 => ret.score = 100

\* scoreRisk has returned for a text on which all eight detectors fired.
C1_AllEightFire ==
  op = "scoreRisk" /\ Len(ret.reasons) = 8 /\ ret.score = 100

\* C2: the tier is decided by the returned score alone: HIGH iff the score is
\* at least 70, MEDIUM iff it is at least 40 and less than 70, LOW otherwise;
\* so 39 is LOW, 40 and 69 are MEDIUM, 70 is HIGH.
C2_TierByScore ==
  /\ Level(39) = "LOW"
  /\ Level(40) = "MEDIUM"
  /\ Level(69) = "MEDIUM"
  /\ Level(70) = "HIGH"
  /\ op = "scoreRisk" =>
       /\ ret.level = "HIGH" <=> ret.score >= 70
       /\ ret.level = "MEDIUM" <=> (ret.score >= 40 /\ ret.score < 70)
       /\ ret.level = "LOW" <=> ret.score < 40
       /\ ret.level \in Levels

\* scoreRisk has returned a score on a threshold: exactly 70, which is HIGH.
C2_ScoreOnThreshold ==
  op = "scoreRisk" /\ ret.score = 70 /\ ret.level = "HIGH"

\* The eight detectors in the order scoreRisk runs them: the label and the
\* points of the reason each adds, and the actions it recommends.
Catalog ==
  <<[label |-> "Urgency pressure", pts |-> 12,
     actions |-> <<"Slow down: verify key terms before sending money.">>],
    [label |-> "Secrecy request", pts |-> 18,
     actions |-> <<"Treat secrecy requests as a red flag. Confirm identity via a second channel.">>],
    [label |-> "Advance-fee / pay-first pattern", pts |-> 28,
     actions |-> <<"Do not pay fees upfront. Require clear contract + verifiable business identity.",
                   "Ask for a standard invoice and verifiable company details.">>],
    [label |-> "Payment details change request", pts |-> 30,
     actions |-> <<"Freeze payments: confirm new payment details via a verified second channel (call / known contact).",
                   "Compare the new details against previous invoices / contracts.">>],
    [label |-> "Shortened link", pts |-> 20,
     actions |-> <<"Avoid shortened links for payments. Request the full official domain.">>],
    [label |-> "Payment rail restriction (crypto-only)", pts |-> 16,
     actions |-> <<"Prefer standard invoicing and traceable business payment rails for first-time counterparties.">>],
    [label |-> "Missing or unclear amount", pts |-> 10,
     actions |-> <<"Clarify the exact amount, currency, and milestone schedule in writing.">>],
    [label |-> "Missing deadline / deliverables clarity", pts |-> 6,
     actions |-> <<"Confirm deliverables, acceptance criteria, and deadline.">>]>>

\* The conditions of the eight detectors on the text s, in the order of the
\* catalog: which of them hold.
Fires(s) ==
  <<Test(urgencyRe, s),
    Test(secrecyRe, s),
    Test(advanceFeeRe, s),
    Test(paymentChangeRe, s),
    \E l \in {extractLinks(s)} : \E n \in 1..Len(l) : Test(shortenerRe, l[n]),
    Test(cryptoOnlyRe, s),
    extractAmount(s) = null,
    extractDeadline(s) = null>>

\* The position of the first occurrence of x in xs.
FirstIn(x, xs) == Least({k \in 1..Len(xs) : xs[k] = x})

\* C3: scoreRisk runs all eight detectors, none hiding another: the score is
\* the least of 100 and 10 plus the points of exactly the detectors whose
\* condition holds, and the reasons are one per such detector, with the label
\* and the points of the catalog, in the order of the catalog.
C3_AllDetectorsRun ==
  op = "scoreRisk" =>
    \E f \in {Fires(args[1])} :
      LET expected == Pick(Catalog, {n \in 1..8 : f[n]})
          Pts(n) == IF f[n] THEN Catalog[n].pts ELSE 0
          sum == 10 + Pts(1) + Pts(2) + Pts(3) + Pts(4) + Pts(5) + Pts(6) + Pts(7) + Pts(8)
      IN /\ ret.score = IF sum < 100 THEN sum ELSE 100
         /\ Len(ret.reasons) = Len(expected)
         /\ \A k \in 1..Len(expected) :
              /\ ret.reasons[k].label = expected[k].label
              /\ ret.reasons[k].pts = expected[k].pts

\* scoreRisk has returned for a text on which urgency, secrecy and crypto-only
\* fired and the five other detectors did not.
C3_ThreeOfEightFire ==
  /\ op = "scoreRisk"
  /\ ret.score = 56
  /\ Len(ret.reasons) = 3
  /\ ret.reasons[1].label = "Urgency pressure"
  /\ ret.reasons[2].label = "Secrecy request"
  /\ ret.reasons[3].label = "Payment rail restriction (crypto-only)"

\* C4: the plan holds no string twice, holds every action of a firing
\* detector and no other, and lists them in the order of their first
\* occurrence in the actions of the firing detectors, taken in catalog order.
C4_PlanIsFiringActions ==
  op = "scoreRisk" =>
    \E f \in {Fires(args[1])} :
      LET Acts(n) == IF f[n] THEN Catalog[n].actions ELSE <<>>
          all == Acts(1) \o Acts(2) \o Acts(3) \o Acts(4)
                   \o Acts(5) \o Acts(6) \o Acts(7) \o Acts(8)
          plan == ret.plan
      IN /\ \A i, j \in 1..Len(plan) : i # j => plan[i] # plan[j]
         /\ {plan[i] : i \in 1..Len(plan)} = {all[i] : i \in 1..Len(all)}
         /\ \A i, j \in 1..Len(plan) :
              i < j => FirstIn(plan[i], all) < FirstIn(plan[j], all)

\* scoreRisk has returned a plan with the actions of several detectors: both
\* actions of advance-fee, then both of payment-change.
C4_PlanOfSeveralDetectors ==
  /\ op = "scoreRisk"
  /\ Len(ret.plan) >= 4
  /\ \E i \in 1..(Len(ret.plan) - 3) :
       /\ ret.plan[i] = Catalog[3].actions[1]
       /\ ret.plan[i + 1] = Catalog[3].actions[2]
       /\ ret.plan[i + 2] = Catalog[4].actions[1]
       /\ ret.plan[i + 3] = Catalog[4].actions[2]

\* C7: when payment-change, secrecy and urgency all fire, whatever the other
\* detectors do, the score is at least 70, the tier is HIGH and the plan asks
\* to confirm the new payment details via a verified second channel.
C7_ChangeSecrecyUrgencyIsHigh ==
  (/\ op = "scoreRisk"
   /\ Test(paymentChangeRe, args[1])
   /\ Test(secrecyRe, args[1])
   /\ Test(urgencyRe, args[1]))
  => /\ ret.score >= 70
     /\ ret.level = "HIGH"
     /\ \E i \in 1..Len(ret.plan) :
          ret.plan[i] = "Freeze payments: confirm new payment details via a verified second channel (call / known contact)."

\* scoreRisk has returned for the demo text of a change of bank details, on
\* which the three detectors fire.
C7_BankChangeDemo ==
  /\ op = "scoreRisk"
  /\ args[1] = DEMOS.bank_change
  /\ \E i, j, k \in 1..Len(ret.reasons) :
       /\ ret.reasons[i].label = "Urgency pressure"
       /\ ret.reasons[j].label = "Secrecy request"
       /\ ret.reasons[k].label = "Payment details change request"
  /\ ret.level = "HIGH"

(***************************************************************************)
(* Properties of extractLinks, detectPayment, buildSafeReply and           *)
(* highlightMatches                                                        *)
(***************************************************************************)

\* links against the matches m of the link pattern in the text: at most 8
\* strings, none twice, exactly the strings among the first 8 matches, in the
\* order of their first match.
LinksOfFirstEight(links, m) ==
  /\ Len(links) <= 8
  /\ \A i, j \in 1..Len(links) : i # j => links[i] # links[j]
  /\ {links[i] : i \in 1..Len(links)}
       = {m[i] : i \in 1..(IF Len(m) < 8 THEN Len(m) ELSE 8)}
  /\ \A i, j \in 1..Len(links) : i < j => FirstIn(links[i], m) < FirstIn(links[j], m)

\* C5: extractLinks, and so the links of the result of scoreRisk, returns at
\* most 8 strings and none twice: the first 8 matches of the pattern in the
\* order of the text, each once; a link whose first match is the 9th or a
\* later one is not returned, even when fewer than 8 links are.
C5_LinksCutThenUnique ==
  /\ op = "extractLinks" =>
       \E m \in {MatchAll(urlRe, args[1])} : LinksOfFirstEight(ret, m)
  /\ op = "scoreRisk" =>
       \E m \in {MatchAll(urlRe, args[1])} : LinksOfFirstEight(ret.links, m)

\* extractLinks has returned fewer than 8 links for a text whose 9th match is
\* a link that none of the first 8 matches is, and has not returned it.
C5_NinthLinkDropped ==
  /\ op = "extractLinks"
  /\ Len(ret) < 8
  /\ \E m \in {MatchAll(urlRe, args[1])} :
       /\ Len(m) >= 9
       /\ \A i \in 1..8 : m[i] # m[9]
       /\ \A i \in 1..Len(ret) : ret[i] # m[9]

\* C6: detectPayment never returns the empty string; it returns "Unspecified"
\* iff none of the four category tests matches, and otherwise the matching
\* categories, each once, joined by ", " in the order Bank transfer, PayPal,
\* Crypto, Gift cards.
C6_PaymentCategories ==
  op = "detectPayment" =>
    \E hit \in {<<Test(bankRe, args[1]), Test(paypalRe, args[1]),
                  Test(cryptoRe, args[1]), Test(giftRe, args[1])>>} :
      LET Item(n, name) == IF hit[n] THEN <<name>> ELSE <<>>
          names == Item(1, "Bank transfer") \o Item(2, "PayPal")
                     \o Item(3, "Crypto") \o Item(4, "Gift cards")
          Rest(n) == IF n <= Len(names) THEN ", " \o names[n] ELSE ""
      IN /\ ret # ""
         /\ ret = "Unspecified" <=> names = <<>>
         /\ names # <<>> => ret = names[1] \o Rest(2) \o Rest(3) \o Rest(4)

\* detectPayment has returned for a text on which the four tests match.
C6_AllFourCategories ==
  /\ op = "detectPayment"
  /\ Test(bankRe, args[1]) /\ Test(paypalRe, args[1])
  /\ Test(cryptoRe, args[1]) /\ Test(giftRe, args[1])
  /\ ret = "Bank transfer, PayPal, Crypto, Gift cards"

\* C9: the reply is the greeting, the tone sentence of the tier (HIGH,
\* MEDIUM, otherwise the LOW sentence), the items 1 to 3, the item 4 iff the
\* snapshot has links, the item 5 iff the payment of the snapshot contains
\* Crypto, and the closing line; the items 4 and 5 are decided each on its own.
C9_ReplyItems ==
  op = "buildSafeReply" =>
    LET level == args[1]
        snapshot == args[2]
        tone == IF level = "HIGH"
                THEN "Before proceeding, I need to verify a few details for safety."
                ELSE IF level = "MEDIUM"
                THEN "Quick verification before we proceed:"
                ELSE "Just confirming a couple of details to avoid misunderstandings:"
        item4 == IF snapshot.links # <<>>
                 THEN "4) Please share the full official domain (no shortened links).\n"
                 ELSE ""
        item5 == IF Includes(snapshot.payment, "Crypto")
                 THEN "5) For first-time engagements, I prefer standard invoicing and traceable business payment rails.\n"
                 ELSE ""
    IN ret = "Hi = thanks for the update.\n" \o tone \o "\n\n"
               \o "1) Please confirm the exact amount + currency and the payment method.\n"
               \o "2) Please confirm the payment details via a second channel (call / known contact).\n"
               \o "3) Please share a standard invoice and your company details (legal name, website, address).\n"
               \o item4 \o item5
               \o "\nOnce confirmed, I~m happy to proceed immediately."

\* buildSafeReply has returned, for a snapshot without links whose payment
\* contains Crypto, a reply with the item 5 and without the item 4.
C9_ItemFiveWithoutFour ==
  /\ op = "buildSafeReply"
  /\ args[2].links = <<>>
  /\ Includes(args[2].payment, "Crypto")
  /\ Includes(ret, "\n5) ")
  /\ ~Includes(ret, "\n4) ")

\* The positions of r where the string tag starts.
TagsAt(r, tag) ==
  {i \in 1..(Len(r) - Len(tag) + 1) : SubSeq(r, i, i + Len(tag) - 1) = tag}

\* C10: highlightMatches emits no nested or overlapping markers: between two
\* opening markers of what it returns there is a closing marker (escapeHtml
\* leaves no < of the text, so every <mark> and </mark> is a marker).
C10_NoNestedMarks ==
  op = "highlightMatches" =>
    \E opens \in {TagsAt(ret, "<mark>")}, closes \in {TagsAt(ret, "</mark>")} :
      \A i, j \in opens : i < j => \E c \in closes : i < c /\ c < j

\* The labels of the six detectors that look for a vocabulary in the text.
VocabularyLabels ==
  {Catalog[n].label : n \in 1..6}

\* C18: whenever a vocabulary detector fires, at least one of the trigger
\* phrases of its reason occurs in the text, whatever the case of the letters,
\* so that the reason has a highlighted span.
C18_TriggerPhraseInText ==
  op = "scoreRisk" =>
    \E t \in {ToLower(args[1])} :
      \A k \in 1..Len(ret.reasons) :
        ret.reasons[k].label \in VocabularyLabels =>
          \E n \in 1..Len(ret.reasons[k].triggerPhrases) :
            Includes(t, ToLower(ret.reasons[k].triggerPhrases[n]))

\* The numbers n of 1..9 for which a line of the reply starts with "n) ".
ItemNumbers(reply) ==
  LET digit == <<"1", "2", "3", "4", "5", "6", "7", "8", "9">>
  IN {n \in 1..9 : Includes(reply, "\n" \o digit[n] \o ") ")}

\* C19: the checklist items of every reply are numbered 1, 2, ..., n without
\* a gap, whether the snapshot has links or not and its payment Crypto or not.
C19_ItemsNumberedWithoutGap ==
  op = "buildSafeReply" =>
    \E items \in {ItemNumbers(ret)} :
      /\ items # {}
      /\ \A n \in items : n = 1 \/ n - 1 \in items

(***************************************************************************)
(* The parties of the snapshot: what analyze makes of the entities that    *)
(* the recognizer returns.  An entity is a record of its word, its label   *)
(* (entity) and its confidence (score), the confidence in hundredths.      *)
(***************************************************************************)

\* e.score >= 0.60, in hundredths.
MinScore == 60

\* .slice(0, 18)
MaxParties == 18

\* ["PER","ORG","LOC","MISC"]
EntityTypes == <<"PER", "ORG", "LOC", "MISC">>

\* e => e.score >= 0.60 && ["PER","ORG","LOC","MISC"].includes(e.entity)
Confident(e) ==
  /\ e.score >= MinScore
  /\ \E n \in 1..Len(EntityTypes) : EntityTypes[n] = e.entity

\* const keep = ents.filter(...).slice(0, 18);
Keep(ents) == Slice0(SelectSeq(ents, Confident), MaxParties)

\* const key = `${e.word}|${e.entity}`;
Key(e) == e.word \o "|" \o e.entity

\* The loop over keep: an entity whose key was seen is skipped, the others
\* are pushed as `${e.word} (${e.entity})`.
Pretty(keep) ==
  LET firsts == {i \in 1..Len(keep) : \A j \in 1..(i - 1) : Key(keep[j]) # Key(keep[i])}
      first == Pick(keep, firsts)
  IN [n \in 1..Len(first) |-> first[n].word \o " (" \o first[n].entity \o ")"]

\* Entities are made unique before the first 18 are taken.
PartiesUniqThenCut(ents) ==
  LET pretty == Slice0(Pretty(SelectSeq(ents, Confident)), MaxParties)
  IN IF Len(pretty) > 0 THEN Join(pretty, ", ") ELSE null

\* snapshot.parties = pretty.length ? pretty.join(", ") : null;
partiesOf(ents) ==
  LET pretty == Pretty(Keep(ents))
  IN IF Len(pretty) > 0 THEN Join(pretty, ", ") ELSE null

\* The number of different entities of the longest answer of the recognizer.
MaxEnts == 19

\* The decimal digits of a number below 100.
Decimal(n) ==
  LET digit == <<"0", "1", "2", "3", "4", "5", "6", "7", "8", "9">>
  IN IF n < 10 THEN digit[n + 1] ELSE digit[(n \div 10) + 1] \o digit[(n % 10) + 1]

\* The n-th of the different entities: the words differ, the labels rotate.
Entity(n, score) ==
  [word |-> "Party" \o Decimal(n), entity |-> EntityTypes[(n % 4) + 1], score |-> score]

\* The answers of the recognizer: some entities in front (none, one below
\* the confidence, one with a label outside the four, one that comes again
\* later and one below the confidence), then the first k different entities, the first of them with a
\* confidence around the threshold, then again none, the first entity once
\* more, or its word under another label.
EntityLists ==
  {front \o [n \in 1..k |-> Entity(n, IF n = 1 THEN first ELSE 99)] \o back :
     front \in {<<>>, <<Entity(1, 30)>>, <<[Entity(2, 99) EXCEPT !.entity = "B-PER"]>>,
                <<Entity(1, 99), Entity(2, 30)>>},
     k \in 0..MaxEnts,
     first \in {MinScore - 1, MinScore, MinScore + 1},
     back \in {<<>>, <<Entity(1, 80)>>, <<[Entity(1, 80) EXCEPT !.entity = "LOC"]>>}}

InitParties ==
  /\ text = DEMOS.clean
  /\ op = "none"
  /\ args \in {<<ents>> : ents \in EntityLists}
  /\ ret = "none"
  /\ PageInit

CallParties ==
  /\ op = "none"
  /\ op' = "parties"
  /\ args' = args
  /\ ret' = partiesOf(args[1])
  /\ UNCHANGED <<text, pageVars>>

NextParties == CallParties

SpecParties == InitParties /\ [][NextParties]_vars

\* The positions of ents that the parties are made of: those of the first 18
\* entities with a confidence of 0.60 or more and one of the four labels
\* that have no such entity of the same word and label before them.
PartyPositions(ents) ==
  LET good == {i \in 1..Len(ents) :
                 ents[i].score >= 60 /\ ents[i].entity \in {"PER", "ORG", "LOC", "MISC"}}
      cut == {i \in good : Cardinality({j \in good : j < i}) < 18}
  IN {i \in cut : \A j \in cut :
        j < i => ents[j].word # ents[i].word \/ ents[j].entity # ents[i].entity}

\* C15: parties lists only entities with a confidence of 0.60 or more, at
\* most 18 of them, no two of the same word and label, in the order in which
\* they are first seen, and is null, never the empty string, when no entity
\* is left.
C15_Parties ==
  op = "parties" =>
    \E at \in {PartyPositions(args[1])} :
      /\ Cardinality(at) <= 18
      /\ \A i \in at : args[1][i].score >= 60
      /\ ret # ""
      /\ (at = {}) = (ret = null)
      /\ at # {} =>
           \E es \in {Pick(args[1], at)} :
             ret = Join([n \in 1..Len(es) |-> es[n].word \o " (" \o es[n].entity \o ")"], ", ")

\* The recognizer has returned more than 18 entities that qualify, one of
\* them twice among the first 18, with others below the threshold, and the
\* parties are made of them.
C15_CutAndRepeated ==
  /\ op = "parties"
  /\ ret # null
  /\ Len(SelectSeq(args[1], Confident)) > 18
  /\ Cardinality(PartyPositions(args[1])) = 17
  /\ \E i \in 1..Len(args[1]) : args[1][i].score < 60

(***************************************************************************)
(* The page: what the handlers of the buttons and the answers of the       *)
(* network do to it.  A step is one task of the browser with the           *)
(* continuations that it makes ready: code after an await on a promise     *)
(* that is already settled runs before any other task.                     *)
(***************************************************************************)

\* A variant of trim that removes nothing.
TrimNothing(s) == s

\* String.prototype.trim.
Trim(s) ==
  LET n == Len(s)
      Black(i) == At(s, i) \notin SpaceChars
      \* The number of white characters in front and (counted from the end) at
      \* the end.
      front == CHOOSE k \in 0..n : (k < n => Black(k + 1)) /\ \A j \in 1..k : ~Black(j)
      back == CHOOSE k \in 0..n : (k < n => Black(n - k)) /\ \A j \in 1..k : ~Black(n + 1 - j)
  IN IF front = n THEN "" ELSE SubSeq(s, front + 1, n - back)

\* What the user types into the text field: nothing, or white space only
\* (other texts come from the demo buttons).
Typed == {"", " \n\t "}

\* The texts that analyze and getReportBundle go on with.
Analyzed ==
  {Trim(s) : s \in {DEMOS.clean, DEMOS.bank_change, DEMOS.advance_fee} \union Typed} \ {""}

\* What the rules make of a text whose result is given: the result of
\* scoreRisk, the snapshot of the rules, and what highlightMatches(text,
\* triggers) returns for the triggers collected from the reasons as
\* renderReasons has left them.
RulesOf(t, result) ==
  [result |-> result,
   snapshot |-> Snapshot(t, result),
   highlighted |-> highlightMatches(t, Triggers(AfterRenderReasons(result)))]

\* The same for every text of the page, computed once.
Analysis == [t \in Analyzed |-> RulesOf(t, scoreRisk(t))]

\* String(n) for a number of 0..100.
String(n) == IF n = 100 THEN "100" ELSE Decimal(n)

\* renderReasons: one item per reason, most points first, or the one item
\* that says that there is none.
renderReasons(reasons) ==
  IF Len(reasons) = 0 THEN <<"No major red flags detected in this message.">>
  ELSE LET sorted == SortByPtsDesc(reasons)
       IN [n \in 1..Len(sorted) |->
             sorted[n].label \o " (+" \o String(sorted[n].pts) \o ")"]

\* renderPlan: one item per action, or the one item of the standard advice.
renderPlan(plan) ==
  IF Len(plan) = 0
  THEN <<"Proceed with standard invoicing and confirm details in writing.">>
  ELSE plan

\* x || "-" for a string or null.
OrDash(x) == IF x = null \/ x = "" THEN dash ELSE x

\* A variant of renderSnapshot that shows the parties as they are.
RenderSnapshotRaw(page, snapshot) ==
  [page EXCEPT !.parties = snapshot.parties,
               !.amount = OrDash(snapshot.amount),
               !.deadline = OrDash(snapshot.deadline),
               !.payment = OrDash(snapshot.payment),
               !.links = IF Len(snapshot.links) > 0
                         THEN Join(snapshot.links, "  *  ") ELSE dash]

\* renderSnapshot; the bullet between the links (U+2022) is written *.
renderSnapshot(page, snapshot) ==
  [page EXCEPT !.parties = OrDash(snapshot.parties),
               !.amount = OrDash(snapshot.amount),
               !.deadline = OrDash(snapshot.deadline),
               !.payment = OrDash(snapshot.payment),
               !.links = IF Len(snapshot.links) > 0
                         THEN Join(snapshot.links, "  *  ") ELSE dash]

\* The lines 401 to 404 of analyze: the score, the pill, the reasons and the
\* plan of the result are shown.
ShowRisk(page, result) ==
  [page EXCEPT !.score = String(result.score),
               !.level = result.level,
               !.reasons = renderReasons(result.reasons),
               !.plan = renderPlan(result.plan)]

\* The lines 437 to 452 of analyze for a call and the parties that it has
\* found (null in the catch block): the snapshot, the reply and the
\* highlighted view are shown, and the status says how recognition went.
\* call.highlighted is what highlightMatches(text, triggers) returns for the
\* text and the triggers of the call.
ShowRest(page, call, parties, status) ==
  LET snapshot == [call.snapshot EXCEPT !.parties = parties]
  IN [renderSnapshot(page, snapshot) EXCEPT
        !.reply = buildSafeReply(call.result.level, snapshot),
        !.highlighted = call.highlighted,
        !.aiStatus = status]

\* The catch block of analyze for the calls of the sequence, one after the
\* other.
RECURSIVE CatchAll(_, _)
CatchAll(page, calls) ==
  IF Len(calls) = 0 THEN page
  ELSE ShowRest(CatchAll(page, SubSeq(calls, 1, Len(calls) - 1)),
                calls[Len(calls)], null, "AI: optional")

\* The promise of the loader while it awaits import(sources[k]).
Importing == <<"import 1", "import 2", "import 3">>

\* The n-th recognizer that pipeline has built.
Recognizer(n) == "recognizer " \o Decimal(n)

\* The calls of analyze that may run at once on the page, and on the page
\* where calls of analyze race.
MaxAnalyze == 1

MaxRacing == 2

\* The files that the page may download.
MaxFiles == 1

\* Where ensureNER stands after the code that it runs at once: it has
\* returned the recognizer, it awaits pipeline(...) with quantized weights,
\* its await of the rejected promise of the loader throws, or it awaits the
\* promise of the loader.
EnsureNER ==
  IF ner # null THEN "infer"
  ELSE IF pipelineFn # null THEN "quant"
  ELSE IF pipelineLoadPromise = "rejected" THEN "failed"
  ELSE "getFn"

\* _getPipelineFn as ensureNER calls it: the first call starts the loader with
\* the first source.
GetPipelineFn ==
  pipelineLoadPromise' =
    IF ner = null /\ pipelineFn = null /\ pipelineLoadPromise = null
    THEN Importing[1] ELSE pipelineLoadPromise

\* The demo buttons and the keyboard.
Demo1 ==
  /\ ~alert
  /\ input' = DEMOS.clean
  /\ UNCHANGED <<text, op, args, ret, alert, pipelineFn, pipelineLoadPromise, ner,
                 built, warm, inv, shown, files>>

Demo2 ==
  /\ ~alert
  /\ input' = DEMOS.bank_change
  /\ UNCHANGED <<text, op, args, ret, alert, pipelineFn, pipelineLoadPromise, ner,
                 built, warm, inv, shown, files>>

Demo3 ==
  /\ ~alert
  /\ input' = DEMOS.advance_fee
  /\ UNCHANGED <<text, op, args, ret, alert, pipelineFn, pipelineLoadPromise, ner,
                 built, warm, inv, shown, files>>

Type ==
  /\ ~alert
  /\ input' \in Typed
  /\ UNCHANGED <<text, op, args, ret, alert, pipelineFn, pipelineLoadPromise, ner,
                 built, warm, inv, shown, files>>

\* The user closes the alert box; until then no code of the page runs.
CloseAlert ==
  /\ alert
  /\ alert' = FALSE
  /\ UNCHANGED <<text, op, args, ret, input, pipelineFn, pipelineLoadPromise, ner,
                 built, warm, inv, shown, files>>

\* A click on the Analyze button: analyze up to its first await that does
\* not continue at once, while fewer than most calls of analyze run.
Analyze(most) ==
  /\ ~alert
  /\ \E t \in {Trim(input)} :
       IF t = ""
       THEN /\ alert' = TRUE
            /\ UNCHANGED <<pipelineLoadPromise, inv, shown>>
       ELSE /\ Len(inv) < most
            /\ alert' = FALSE
            /\ GetPipelineFn
            /\ \E rules \in {Analysis[t]}, pc \in {EnsureNER} :
                 \E call \in {[pc |-> pc, text |-> t,
                               result |-> AfterRenderReasons(rules.result),
                               snapshot |-> rules.snapshot,
                               triggers |-> Triggers(AfterRenderReasons(rules.result)),
                               highlighted |-> rules.highlighted,
                               classifier |-> ner]},
                    page \in {ShowRisk(shown, rules.result)} :
                   IF pc = "failed"
                   THEN /\ shown' = ShowRest(page, call, null, "AI: optional")
                        /\ inv' = inv
                   ELSE /\ shown' = [page EXCEPT !.aiStatus =
                                       IF pc = "infer" THEN "AI: extracting..."
                                       ELSE "AI: loading..."]
                        /\ inv' = Append(inv, call)
  /\ UNCHANGED <<text, op, args, ret, input, pipelineFn, ner, built, warm, files>>

ClickAnalyze == Analyze(MaxAnalyze)

ClickAnalyzeRacing == Analyze(MaxRacing)

\* The warm-up timer fires: ensureNER({ silent: true }).catch(() => {}).
WarmUp ==
  /\ ~alert
  /\ warm = "timer"
  /\ warm' = IF EnsureNER = "infer" THEN "done" ELSE EnsureNER
  /\ GetPipelineFn
  /\ UNCHANGED <<text, op, args, ret, input, alert, pipelineFn, ner, built, inv,
                 shown, files>>

\* import(sources[k]) gives a module with a pipeline function: the promise of
\* the loader is fulfilled, and every ensureNER that awaits it calls
\* pipeline(...) with quantized weights.
ImportLoads ==
  /\ ~alert
  /\ \E k \in 1..3 : pipelineLoadPromise = Importing[k]
  /\ pipelineFn' = "pipeline"
  /\ pipelineLoadPromise' = "fulfilled"
  /\ warm' = IF warm = "getFn" THEN "quant" ELSE warm
  /\ inv' = [i \in 1..Len(inv) |->
               IF inv[i].pc = "getFn" THEN [inv[i] EXCEPT !.pc = "quant"] ELSE inv[i]]
  /\ UNCHANGED <<text, op, args, ret, input, alert, ner, built, shown, files>>

\* import(sources[k]) throws, or gives a module without a pipeline function:
\* the loader goes on with the next source, and after the last one its
\* promise is rejected; then every ensureNER that awaits it throws, which the
\* warm-up swallows and analyze catches.
ImportFails ==
  /\ ~alert
  /\ \E k \in 1..3 :
       /\ pipelineLoadPromise = Importing[k]
       /\ IF k < 3
          THEN /\ pipelineLoadPromise' = Importing[k + 1]
               /\ UNCHANGED <<warm, inv, shown>>
          ELSE /\ pipelineLoadPromise' = "rejected"
               /\ warm' = IF warm = "getFn" THEN "failed" ELSE warm
               /\ shown' = CatchAll(shown, SelectSeq(inv, LAMBDA c : c.pc = "getFn"))
               /\ inv' = SelectSeq(inv, LAMBDA c : c.pc # "getFn")
  /\ UNCHANGED <<text, op, args, ret, input, alert, pipelineFn, ner, built, files>>

\* The callers of ensureNER: 0 is the warm-up, i the i-th running call of
\* analyze.
Callers == 0..Len(inv)

\* Where the caller stands.
PcOf(c) == IF c = 0 THEN warm ELSE inv[c].pc

\* The sequence without its i-th element.
Remove(xs, i) == SubSeq(xs, 1, i - 1) \o SubSeq(xs, i + 1, Len(xs))

\* pipeline(...) returns a recognizer to the caller, with quantized weights
\* or without: ensureNER assigns it to ner and returns it; the warm-up is
\* done, analyze calls the recognizer on its text.
Built(c) ==
  /\ ~alert
  /\ \E new \in {Recognizer(built + 1)} :
       /\ ner' = new
       /\ built' = built + 1
       /\ IF c = 0
          THEN /\ warm' = "done"
               /\ UNCHANGED <<inv, shown>>
          ELSE /\ inv' = [inv EXCEPT ![c].pc = "infer", ![c].classifier = new]
               /\ shown' = [shown EXCEPT !.aiStatus = "AI: extracting..."]
               /\ UNCHANGED warm
  /\ UNCHANGED <<text, op, args, ret, input, alert, pipelineFn, pipelineLoadPromise, files>>

QuantizedBuilt(c) ==
  /\ PcOf(c) = "quant"
  /\ Built(c)

PlainBuilt(c) ==
  /\ PcOf(c) = "plain"
  /\ Built(c)

\* pipeline(...) with quantized weights throws: ensureNER calls it again
\* without.
QuantizedFails(c) ==
  /\ ~alert
  /\ PcOf(c) = "quant"
  /\ IF c = 0
     THEN warm' = "plain" /\ UNCHANGED inv
     ELSE inv' = [inv EXCEPT ![c].pc = "plain"] /\ UNCHANGED warm
  /\ UNCHANGED <<text, op, args, ret, input, alert, pipelineFn, pipelineLoadPromise,
                 ner, built, shown, files>>

\* pipeline(...) without quantized weights throws too: ensureNER throws, which
\* the warm-up swallows and analyze catches.
PlainFails(c) ==
  /\ ~alert
  /\ PcOf(c) = "plain"
  /\ IF c = 0
     THEN warm' = "failed" /\ UNCHANGED <<inv, shown>>
     ELSE /\ shown' = ShowRest(shown, inv[c], null, "AI: optional")
          /\ inv' = Remove(inv, c)
          /\ UNCHANGED warm
  /\ UNCHANGED <<text, op, args, ret, input, alert, pipelineFn, pipelineLoadPromise,
                 ner, built, files>>

\* The answers of the recognizer on the page: no entity, or a person, a
\* company below the confidence and the person again.
Answers ==
  {<<>>,
   <<[word |-> "Sarah", entity |-> "PER", score |-> 99],
     [word |-> "Northwind", entity |-> "ORG", score |-> 41],
     [word |-> "Sarah", entity |-> "PER", score |-> 87]>>}

\* classifier(text) returns the entities to the i-th running call of analyze,
\* which ends.
Recognized(i) ==
  /\ ~alert
  /\ inv[i].pc = "infer"
  /\ \E ents \in Answers :
       shown' = ShowRest(shown, inv[i], partiesOf(ents), "AI: on-device (ok)")
  /\ inv' = Remove(inv, i)
  /\ UNCHANGED <<text, op, args, ret, input, alert, pipelineFn, pipelineLoadPromise,
                 ner, built, warm, files>>

\* classifier(text) throws: the i-th running call of analyze catches it and
\* ends.
RecognitionFails(i) ==
  /\ ~alert
  /\ inv[i].pc = "infer"
  /\ shown' = ShowRest(shown, inv[i], null, "AI: optional")
  /\ inv' = Remove(inv, i)
  /\ UNCHANGED <<text, op, args, ret, input, alert, pipelineFn, pipelineLoadPromise,
                 ner, built, warm, files>>

\* getReportBundle: nothing for a text field that trims to nothing, else what
\* the report is made of: the text, the result as buildMarkdownSummary leaves
\* it, the parties and the reply that the page shows (the reply built for the
\* snapshot where the page shows none), for the value of the text field,
\* what the page shows and what the rules make of the texts.  What it returns is a sequence: empty
\* for null, else of the one bundle.
getReportBundle(value, page, rules) ==
  LET t == Trim(value)
      result == AfterRenderReasons(rules[t].result)
      snapshot == [rules[t].snapshot EXCEPT
                     !.parties = IF page.parties = dash THEN null ELSE page.parties]
      shownReply == Trim(page.reply)
      reply == IF shownReply = dash
               THEN buildSafeReply(result.level, snapshot) ELSE shownReply
  IN IF t = "" THEN <<>>
     ELSE <<[rawText |-> t, result |-> result, snapshot |-> snapshot, reply |-> reply]>>

\* Export as text: exportAsTxt downloads the text of the bundle, if there is
\* one, under its name.
ExportTxt ==
  /\ ~alert
  /\ \E bundle \in {getReportBundle(input, shown, Analysis)} :
       IF bundle = <<>> THEN files' = files
       ELSE /\ Len(files) < MaxFiles
            /\ files' = Append(files, "dealshield_report.txt")
  /\ UNCHANGED <<text, op, args, ret, input, alert, pipelineFn, pipelineLoadPromise,
                 ner, built, warm, inv, shown>>

\* Export as PDF: exportAsPdf saves the text of the bundle, if there is one,
\* under a name with the date where the page has jsPDF, and else opens the
\* report in a window and prints it.
ExportPdf ==
  /\ ~alert
  /\ \E bundle \in {getReportBundle(input, shown, Analysis)} :
       IF bundle = <<>> THEN files' = files
       ELSE /\ Len(files) < MaxFiles
            /\ \E name \in {"dealshield_report_ymd.pdf", "print"} :
                 files' = Append(files, name)
  /\ UNCHANGED <<text, op, args, ret, input, alert, pipelineFn, pipelineLoadPromise,
                 ner, built, warm, inv, shown>>

InitPage ==
  /\ text = DEMOS.clean
  /\ op = "none"
  /\ args = <<>>
  /\ ret = "none"
  /\ PageInit

\* The steps of the page other than the click on Analyze.
Others ==
  \/ Demo1
  \/ Demo2
  \/ Demo3
  \/ Type
  \/ CloseAlert
  \/ WarmUp
  \/ ImportLoads
  \/ ImportFails
  \/ \E c \in Callers : QuantizedBuilt(c)
  \/ \E c \in Callers : PlainBuilt(c)
  \/ \E c \in Callers : QuantizedFails(c)
  \/ \E c \in Callers : PlainFails(c)
  \/ \E i \in 1..Len(inv) : Recognized(i)
  \/ \E i \in 1..Len(inv) : RecognitionFails(i)
  \/ ExportTxt
  \/ ExportPdf

NextPage ==
  \/ ClickAnalyze
  \/ Others

SpecPage == InitPage /\ [][NextPage]_vars

\* The page where a second call of analyze may start while the first runs.
NextRace ==
  \/ ClickAnalyzeRacing
  \/ Others

SpecRace == InitPage /\ [][NextRace]_vars

\* What the page shows of the snapshot, the reply and the highlighted view is
\* made by the rules alone from the text t: the amount, the deadline, the
\* payment and the links of t, no parties, the reply to the tier and that
\* snapshot, and t with its triggers marked.
ShowsRulesOf(page, t) ==
  LET result == Analysis[t].result
      snapshot == Analysis[t].snapshot
  IN /\ page.parties = dash
     /\ page.amount = (IF snapshot.amount = null THEN dash ELSE snapshot.amount)
     /\ page.deadline = (IF snapshot.deadline = null THEN dash ELSE snapshot.deadline)
     /\ page.payment = snapshot.payment
     /\ page.links = (IF result.links = <<>> THEN dash ELSE Join(result.links, "  *  "))
     /\ page.reply = buildSafeReply(result.level, [snapshot EXCEPT !.parties = null])
     /\ page.highlighted = Analysis[t].highlighted

\* C11: when entity recognition fails in a call of analyze (the library loads
\* from none of the three sources, the model is built neither with quantized
\* weights nor without, or the recognizer throws), analyze catches it: in the
\* step that shows the status of a failed recognition, the parties are shown
\* as absent, and the snapshot, the reply and the highlighted view are
\* those that the rules make of the text of a call that ends in this step.
C11_FailureCaught ==
  [][(shown' # shown /\ shown'.aiStatus = "AI: optional") =>
       \E t \in {inv[i].text : i \in 1..Len(inv)} \union ({Trim(input)} \ {""}) :
         /\ Len(inv') < Len(inv) \/ (inv' = inv /\ pipelineLoadPromise = "rejected")
         /\ ShowsRulesOf(shown', t)]_vars

\* The library has loaded from none of the three sources, and the page shows
\* a reply and no parties, with the status of a failed recognition.
C11_LoadFailedReplyShown ==
  /\ pipelineLoadPromise = "rejected"
  /\ shown.aiStatus = "AI: optional"
  /\ shown.reply # dash
  /\ shown.parties = dash

\* C12: from the moment analyze is called on a text that is not blank, the
\* snapshot, the reply and the highlighted view of the text are available,
\* whether the call of the recognizer has completed or not: while one call of
\* analyze awaits recognition, the page shows what the rules make of its text.
C12_ShownWhilePending ==
  Len(inv) = 1 => ShowsRulesOf(shown, inv[1].text)

\* The string is empty or of white space only.
IsBlank(s) == \A i \in 1..Len(s) : At(s, i) \in SpaceChars

\* The snapshot, the reply and the highlighted view that the page shows.
SnapshotReplyView(page) ==
  <<page.parties, page.amount, page.deadline, page.payment, page.links, page.reply,
    page.highlighted>>

\* C13: while the text field is empty or holds white space only, no call of
\* analyze goes on to the pipeline and no report is made: a click on Analyze
\* raises the alert and changes nothing else; no step starts a call of
\* analyze or the loader (but the warm-up), changes the score, the tier, the
\* reasons or the plan shown, or adds a file; and the snapshot, the reply and
\* the highlighted view change only when a call that ran before ends.
C13_BlankRejected ==
  [][(IsBlank(input) /\ IsBlank(input')) =>
       /\ (alert' /\ ~alert) =>
             UNCHANGED <<pipelineFn, pipelineLoadPromise, ner, built, warm, inv, shown, files>>
       /\ Len(inv') <= Len(inv)
       /\ (pipelineLoadPromise = null /\ pipelineLoadPromise' # null) => warm' # warm
       /\ <<shown'.score, shown'.level, shown'.reasons, shown'.plan>>
            = <<shown.score, shown.level, shown.reasons, shown.plan>>
       /\ SnapshotReplyView(shown') # SnapshotReplyView(shown) => Len(inv') < Len(inv)
       /\ files' = files]_vars

\* The alert is up for a text field of white space only, on a page that
\* shows the reply of an earlier analysis.
C13_AlertOnWhiteSpace ==
  /\ alert
  /\ input # ""
  /\ IsBlank(input)
  /\ shown.reply # dash

\* C14: the result of scoreRisk is not changed after scoreRisk has returned
\* it: the reasons of the result of a running call of analyze, which the
\* page has rendered, are those that scoreRisk returned for its text, in the
\* order of the catalog.
C14_ResultNotMutated ==
  \A i \in 1..Len(inv) : inv[i].result.reasons = Analysis[inv[i].text].result.reasons

\* C16: the recognizer is built at most once, however the calls of ensureNER
\* of the warm-up and of analyze interleave, and every call of analyze uses
\* that one recognizer.
C16_BuiltOnce ==
  /\ built <= 1
  /\ \A i \in 1..Len(inv) : inv[i].classifier \in {null, Recognizer(1)}

\* C17: once no call of analyze runs any more, the score, the tier, the
\* reasons and the plan that the page shows and the snapshot, the reply and
\* the highlighted view that it shows are those of one text (that of the last
\* call).
C17_ShownOfOneText ==
  (inv = <<>> /\ shown.reply # dash) =>
    \E t \in Analyzed :
      /\ shown.score = String(Analysis[t].result.score)
      /\ shown.level = Analysis[t].result.level
      /\ shown.reasons = renderReasons(Analysis[t].result.reasons)
      /\ shown.plan = renderPlan(Analysis[t].result.plan)
      /\ ShowsRulesOf([shown EXCEPT !.parties = dash,
                                    !.reply = buildSafeReply(Analysis[t].result.level,
                                                [Analysis[t].snapshot EXCEPT !.parties = null])], t)
      /\ \E parties \in {null} \union {partiesOf(ents) : ents \in Answers} :
           shown.reply = buildSafeReply(Analysis[t].result.level,
                                        [Analysis[t].snapshot EXCEPT !.parties = parties])

====
